---- MODULE Spec2Model ----
(***************************************************************************)
(* Session state controller (App.tsx) and generation client                *)
(* (services/geminiService.ts) of GasparCode.                              *)
(*                                                                         *)
(* Text is modelled as a sequence of atoms (TLA+ strings); JavaScript      *)
(* string concatenation and template strings are \o on such sequences.     *)
(* Every action is one JavaScript job: a UI event handler up to its first  *)
(* await, a callback of the remote stream, or the continuation of          *)
(* handleGenerate after its await.  A continuation is a microtask: while   *)
(* one is pending no other job runs (MicrotasksDrained).  React is taken   *)
(* to commit the state updates of a job before the handler of the next job *)
(* runs, so a handler's closure holds the state the earlier jobs left.     *)
(* A turn with the credential absent runs in two jobs: handleGenerate with *)
(* the whole of generateWebsiteStream inside it, then the continuation.    *)
(***************************************************************************)
EXTENDS Integers, Sequences, FiniteSets, TLC

VARIABLES
  prompt,         \* useState('')      App.tsx:25
  generatedCode,  \* useState('')      App.tsx:26  (the Document)
  isGenerating,   \* useState(false)   App.tsx:27  (the busy flag)
  hasStarted,     \* useState(false)   App.tsx:28
  messages,       \* useState([])      App.tsx:31  (the Transcript)
  selectedImage,  \* useState(null)    App.tsx:32  (the Attachment)
  apiKey,         \* process.env.API_KEY || ''   geminiService.ts:3
  reads,          \* FileReaders started by handleFileSelect, not yet loaded
  calls,          \* generateWebsiteStream invocations handleGenerate still awaits
  lastCall,       \* the invocation whose handleGenerate finished last
  nAccepted,      \* number of submits that passed the guard of handleGenerate
  netCalls,       \* number of ai.models.generateContentStream invocations
  nIncrements,    \* number of increments the remote streams have yielded
  lastEvent,      \* the handler that ran last: "submit" for handleGenerate, the
                  \* picked file's media type for handleFileSelect, else "other"
  showCode,       \* useState(false)   App.tsx:29
  viewportWidth,  \* useState('100%')  App.tsx:30
  lastAttach      \* the user's latest attachment action (an accepted file, a
                  \* removal, an accepted submit); recorded in AttachSpec only

\* The state of the preview pane.
view == <<showCode, viewportWidth>>

vars == <<prompt, generatedCode, isGenerating, hasStarted, messages, selectedImage,
          apiKey, reads, calls, lastCall, nAccepted, netCalls, nIncrements, lastEvent,
          showCode, viewportWidth, lastAttach>>

-----------------------------------------------------------------------------
(* Bounds of the model *)

\* Accepted submits, increments of the remote streams and concurrently
\* pending file reads in one session.
MaxTurns == 2
MaxChunks == 2
MaxReads == 1

\* Concurrently pending file reads in the behaviours of AttachSpec.
MaxRaceReads == 2

-----------------------------------------------------------------------------
(* Values *)

\* What the user can type: nothing, blanks only, visible text.
Prompts == {<<>>, <<" ">>, <<"a">>}

\* JavaScript null, for selectedImage.
null == [mimeType |-> "null", data |-> <<>>]

\* Files the user can pick: a media type and the file's bytes.
FileTypes == {"image/png", "text/plain"}
Files == [type : FileTypes, bytes : {"B1"}]

\* Two files of the accepted media types, for the behaviours of AttachSpec.
RaceFiles == {[type |-> "image/png", bytes |-> "B1"], [type |-> "image/jpeg", bytes |-> "B1"]}

\* Text increments of the remote stream; <<>> is an increment whose text is
\* empty or absent (both falsy).
Increments == {<<>>, <<"x">>, <<"y">>}

\* What a faulting call or stream throws.
Faults == {"quota"}

-----------------------------------------------------------------------------
(* String helpers of the JavaScript runtime *)

IsSpace(ch) == ch = " "

RECURSIVE TrimStart(_)
TrimStart(s) ==
  IF s = <<>> THEN <<>>
  ELSE IF IsSpace(Head(s)) THEN TrimStart(Tail(s)) ELSE s

RECURSIVE TrimEnd(_)
TrimEnd(s) ==
  IF s = <<>> THEN <<>>
  ELSE IF IsSpace(s[Len(s)]) THEN TrimEnd(SubSeq(s, 1, Len(s) - 1)) ELSE s

\* String.prototype.trim
Trim(s) == TrimEnd(TrimStart(s))

\* Array.prototype.join on an array of texts
RECURSIVE Join(_, _)
Join(texts, sep) ==
  IF texts = <<>> THEN <<>>
  ELSE IF Len(texts) = 1 THEN texts[1]
  ELSE texts[1] \o sep \o Join(Tail(texts), sep)

\* String.prototype.split(','): the segments between the commas
RECURSIVE SplitComma(_)
SplitComma(s) ==
  IF \A i \in 1..Len(s) : s[i] # ","
  THEN <<s>>
  ELSE LET k == CHOOSE i \in 1..Len(s) : s[i] = "," /\ \A j \in 1..(i - 1) : s[j] # ","
       IN <<SubSeq(s, 1, k - 1)>> \o SplitComma(SubSeq(s, k + 1, Len(s)))

\* btoa of the file's bytes
Base64(bytes) == IF bytes = "B1" THEN <<"QjE=">> ELSE <<"">>

\* FileReader.readAsDataURL: "data:<type>;base64,<payload>"
ReadAsDataURL(file) == <<"data:", file.type, ";base64", ",">> \o Base64(file.bytes)

\* Concatenation of a sequence of texts
RECURSIVE Concat(_)
Concat(texts) == IF texts = <<>> THEN <<>> ELSE Head(texts) \o Concat(Tail(texts))

-----------------------------------------------------------------------------
(* Generation client: generateWebsiteStream *)

MissingKeyDiagnostic ==
  <<"<!-- Error: API Key is missing. Please check your environment configuration. -->">>

ErrorDiagnostic(err) == <<"\n<!-- Error generating content: ", err, " -->">>

HistoryLine(h) == <<IF h.role = "user" THEN "User" ELSE "Gustavo", ": ">> \o h.text

HistoryText(history) ==
  Join([i \in 1..Len(history) |-> HistoryLine(history[i])], <<"\n">>)

CurrentCodePart(currentCode) ==
  [text |-> <<"Here is the current state of the HTML code you are working on. Use this as a base for any updates requested:\n\n">>
            \o currentCode \o <<"\n\n">>]

HistoryPart(history) ==
  [text |-> <<"Conversation History:\n">> \o HistoryText(history) \o <<"\n\n">>]

PromptPart(p) == [text |-> <<"Current Request: ">> \o p]

ImagePart(image) == [inlineData |-> [mimeType |-> image.mimeType, data |-> image.data]]

\* Faulty variant: the image is pushed before the prompt.
BuildParts_ImageBeforePrompt(p, currentCode, image, history) ==
  LET parts1 == IF currentCode # <<>> THEN <<CurrentCodePart(currentCode)>> ELSE <<>>
      parts2 == IF Len(history) > 0 THEN Append(parts1, HistoryPart(history)) ELSE parts1
      parts3 == IF image # null THEN Append(parts2, ImagePart(image)) ELSE parts2
  IN Append(parts3, PromptPart(p))

\* The parts array, pushed in source order.
BuildParts(p, currentCode, image, history) ==
  LET parts1 == IF currentCode # <<>> THEN <<CurrentCodePart(currentCode)>> ELSE <<>>
      parts2 == IF Len(history) > 0 THEN Append(parts1, HistoryPart(history)) ELSE parts1
      parts3 == Append(parts2, PromptPart(p))
      parts4 == IF image # null THEN Append(parts3, ImagePart(image)) ELSE parts3
  IN parts4

\* Faulty variant: the loop forwards every increment, empty text included.
ChunkSinkCalls_ForwardsAll(text) == <<text>>

\* The sink calls one stream increment causes.
ChunkSinkCalls(text) == IF text # <<>> THEN <<text>> ELSE <<>>

\* Faulty variant: the catch clause only logs the fault.
CatchSinkCalls_Silent(err) == <<>>

\* The sink calls the catch clause makes for a fault.
CatchSinkCalls(err) == <<ErrorDiagnostic(err)>>

\* Faulty variant: the fault propagates to the caller.
CatchOutcome_Rethrows == "rejected"

\* How the promise settles when the try block faulted.
CatchOutcome == "resolved"

\* Faulty variant: the catch clause issues the remote call again.
NetCallsAfterFault_Retries(n) == n + 1

\* The number of remote calls once the catch clause has run: it logs and
\* reports, and calls generateContentStream no more.
NetCallsAfterFault(n) == n

\* The sink calls made when the credential is absent.
MissingKeySinkCalls == <<MissingKeyDiagnostic>>

\* Faulty variant: the credential is not looked at.
HasCredential_Always(key) == TRUE

\* Whether the client goes to the network.
HasCredential(key) == key # ""

\* generateWebsiteStream up to its first await (or to its return when the
\* credential is absent).  args are the five parameters but the sink, which
\* is the closure of the invoking handleGenerate.
StartCall(id, p, currentCode, image, history) ==
  LET args == [prompt |-> p, currentCode |-> currentCode, image |-> image, history |-> history]
  IN IF ~HasCredential(apiKey)
     THEN [id |-> id, pc |-> "returned", outcome |-> "resolved", args |-> args,
           issued |-> FALSE, parts |-> <<>>, stream |-> <<>>, fault |-> "",
           sink |-> MissingKeySinkCalls, accumulatedCode |-> Concat(MissingKeySinkCalls)]
     ELSE [id |-> id, pc |-> "awaiting", outcome |-> "pending", args |-> args,
           issued |-> TRUE, parts |-> BuildParts(p, currentCode, image, history),
           stream |-> <<>>, fault |-> "",
           sink |-> <<>>, accumulatedCode |-> <<>>]

\* What is kept of an invocation once its handleGenerate has finished.
Finished(call) ==
  [id |-> call.id, outcome |-> call.outcome, issued |-> call.issued,
   stream |-> call.stream, fault |-> call.fault, sink |-> call.sink]

NoCall ==
  [id |-> 0, outcome |-> "none", issued |-> FALSE, stream |-> <<>>, fault |-> "",
   sink |-> <<>>]

-----------------------------------------------------------------------------
(* Session state controller: App *)

ImageMarker == <<"[Imagem Anexada] ">>

\* Faulty variant: the assistant turn is stored with the user's role.
AssistantConfirmation_UserRole == [role |-> "user", text |-> <<"Site atualizado com sucesso.">>]

\* The entry appended once the awaited call has resolved.
AssistantConfirmation == [role |-> "assistant", text |-> <<"Site atualizado com sucesso.">>]

\* Faulty variants: the guard without the busy flag, with && for ||, without trim().
SubmitRejected_IgnoresBusy(p, image, busy) == Trim(p) = <<>> /\ image = null
SubmitRejected_AndBusy(p, image, busy) == (Trim(p) = <<>> /\ image = null) /\ busy
SubmitRejected_NoTrim(p, image, busy) == (p = <<>> /\ image = null) \/ busy

\* The early return of handleGenerate.
SubmitRejected(p, image, busy) == (Trim(p) = <<>> /\ image = null) \/ busy

\* Faulty variant: the user turn never carries the image marker.
UserMessageText_NoMarker(currentPrompt, currentImage) == currentPrompt

UserMessageText(currentPrompt, currentImage) ==
  IF currentImage # null THEN ImageMarker \o currentPrompt ELSE currentPrompt

\* Faulty variant: the Document of the previous turn is kept.
ResetGeneratedCode_Keeps(code) == code

\* setGeneratedCode('') at the start of a turn.
ResetGeneratedCode(code) == <<>>

\* Faulty variant: the chunk is put in front.
OnChunk_Prepends(prev, chunk) == chunk \o prev

\* The sink handed to the client: setGeneratedCode(prev => prev + chunk).
OnChunk(prev, chunk) == prev \o chunk

\* Faulty variant: the transcript is replaced by its new entry.
AppendMessage_Replaces(prev, msg) == <<msg>>

\* setMessages(prev => [...prev, msg]).
AppendMessage(prev, msg) == Append(prev, msg)

\* Faulty variant: the call gets the document as setGeneratedCode('') leaves it.
CodeContext_AfterReset(code) == ResetGeneratedCode(code)

\* The currentCode argument: generatedCode as the handler's render saw it.
CodeContext(code) == code

\* Faulty variant: the call gets the transcript with the new user turn.
HistoryContext_WithUserTurn(msgs, userTurn) == Append(msgs, userTurn)

\* The history argument: messages as the handler's render saw it.
HistoryContext(msgs, userTurn) == msgs

\* Faulty variant: the busy flag is not cleared when the handler finishes.
IsGeneratingAfter_StaysBusy(outcome) == TRUE

\* The finally clause: setIsGenerating(false), however the call settled.
IsGeneratingAfter(outcome) == FALSE

RECURSIVE OnChunks(_, _)
OnChunks(prev, chunks) ==
  IF chunks = <<>> THEN prev ELSE OnChunks(OnChunk(prev, Head(chunks)), Tail(chunks))

\* Faulty variant: no validation of the media type.
AcceptedType_Any(t) == TRUE

\* The media types handleFileSelect lets through.
AcceptedType(t) == t \in {"image/jpeg", "image/png"}

\* The attachment reader.onload stores.
LoadedImage(file) == [mimeType |-> file.type, data |-> SplitComma(ReadAsDataURL(file))[2]]

\* The disabled attribute of the two submit buttons.
HeroSubmitDisabled == Trim(prompt) = <<>> /\ selectedImage = null
SidebarSubmitDisabled == isGenerating \/ (Trim(prompt) = <<>> /\ selectedImage = null)

\* The ways the UI invokes handleGenerate: the hero form (shown until the
\* first accepted submit), the sidebar form, Enter in the sidebar textarea.
SubmitWays == {"heroForm", "sidebarForm", "enterKey"}

CanInvoke(via) ==
  CASE via = "heroForm" -> ~hasStarted /\ ~HeroSubmitDisabled
    [] via = "sidebarForm" -> hasStarted /\ ~SidebarSubmitDisabled
    [] via = "enterKey" -> hasStarted

\* No continuation of handleGenerate is waiting in the microtask queue.
MicrotasksDrained == \A i \in DOMAIN calls : calls[i].pc # "returned"

RemoveAt(s, i) == SubSeq(s, 1, i - 1) \o SubSeq(s, i + 1, Len(s))

\* No file, for the attachment actions that pick none.
NoFile == [type |-> "", bytes |-> ""]

\* lastAttach where attachment actions are not recorded, and before the first one.
Untracked == [action |-> "untracked", file |-> NoFile]
NoAttachAction == [action |-> "none", file |-> NoFile]

\* The record of an attachment action, where they are recorded.
Track(action, file) ==
  IF lastAttach = Untracked THEN lastAttach ELSE [action |-> action, file |-> file]

InitWith(attach) ==
  /\ lastAttach = attach
  /\ showCode = FALSE
  /\ viewportWidth = "100%"
  /\ prompt = <<>>
  /\ generatedCode = <<>>
  /\ isGenerating = FALSE
  /\ hasStarted = FALSE
  /\ messages = <<>>
  /\ selectedImage = null
  /\ apiKey \in {"", "key"}
  /\ reads = <<>>
  /\ calls = <<>>
  /\ lastCall = NoCall
  /\ nAccepted = 0
  /\ netCalls = 0
  /\ nIncrements = 0
  /\ lastEvent = "other"

Init == InitWith(Untracked)

\* onChange of the prompt input and of the textarea, and the suggestion buttons.
SetPrompt(p) ==
  /\ MicrotasksDrained
  /\ prompt' = p
  /\ lastEvent' = "other"
  /\ UNCHANGED view
  /\ UNCHANGED <<generatedCode, isGenerating, hasStarted, messages, selectedImage,
                 apiKey, reads, calls, lastCall, nAccepted, netCalls, nIncrements, lastAttach>>

\* A dialog closed without a file (no files[0]) changes nothing: a stuttering step.
handleFileSelectWithin(file, maxReads) ==
  /\ MicrotasksDrained
  /\ lastEvent' = file.type
  /\ IF ~AcceptedType(file.type)
     THEN UNCHANGED <<reads, lastAttach>>
     ELSE /\ Len(reads) < maxReads
          /\ reads' = Append(reads, file)
          /\ lastAttach' = Track("select", file)
  /\ UNCHANGED view
  /\ UNCHANGED <<prompt, generatedCode, isGenerating, hasStarted, messages, selectedImage,
                 apiKey, calls, lastCall, nAccepted, netCalls, nIncrements>>

handleFileSelect(file) == handleFileSelectWithin(file, MaxReads)

\* reader.onload of any of the pending reads.
ReaderOnload(i) ==
  /\ MicrotasksDrained
  /\ i \in DOMAIN reads
  /\ selectedImage' = LoadedImage(reads[i])
  /\ reads' = RemoveAt(reads, i)
  /\ lastEvent' = "other"
  /\ UNCHANGED view
  /\ UNCHANGED <<prompt, generatedCode, isGenerating, hasStarted, messages,
                 apiKey, calls, lastCall, nAccepted, netCalls, nIncrements, lastAttach>>

\* The remove button is rendered only while an image is attached.
removeImage ==
  /\ MicrotasksDrained
  /\ selectedImage # null
  /\ selectedImage' = null
  /\ lastEvent' = "other"
  /\ lastAttach' = Track("remove", NoFile)
  /\ UNCHANGED view
  /\ UNCHANGED <<prompt, generatedCode, isGenerating, hasStarted, messages,
                 apiKey, reads, calls, lastCall, nAccepted, netCalls, nIncrements>>

\* handleGenerate up to its await, with the part of generateWebsiteStream
\* that runs synchronously inside it.
handleGenerate(via) ==
  /\ MicrotasksDrained
  /\ CanInvoke(via)
  /\ lastEvent' = "submit"
  /\ UNCHANGED view
  /\ IF SubmitRejected(prompt, selectedImage, isGenerating)
     THEN UNCHANGED <<prompt, generatedCode, isGenerating, hasStarted, messages,
                      selectedImage, apiKey, reads, calls, lastCall, nAccepted, netCalls, nIncrements, lastAttach>>
     ELSE /\ nAccepted < MaxTurns
          /\ LET currentPrompt == prompt
                 currentImage == selectedImage
                 userTurn == [role |-> "user",
                              text |-> UserMessageText(currentPrompt, currentImage)]
                 call == StartCall(nAccepted + 1, currentPrompt, CodeContext(generatedCode),
                                   currentImage, HistoryContext(messages, userTurn))
             IN /\ prompt' = <<>>
                /\ selectedImage' = null
                /\ hasStarted' = TRUE
                /\ isGenerating' = TRUE
                /\ messages' = AppendMessage(messages, userTurn)
                /\ generatedCode' = OnChunks(ResetGeneratedCode(generatedCode), call.sink)
                /\ calls' = Append(calls, call)
                /\ netCalls' = IF call.issued THEN netCalls + 1 ELSE netCalls
                /\ nAccepted' = nAccepted + 1
                /\ lastCall' = NoCall
                /\ lastAttach' = Track("submit", NoFile)
                /\ UNCHANGED <<apiKey, reads, nIncrements>>

\* await ai.models.generateContentStream(...) resolves with the stream.
StreamOpens(i) ==
  /\ MicrotasksDrained
  /\ i \in DOMAIN calls
  /\ calls[i].pc = "awaiting"
  /\ calls' = [calls EXCEPT ![i].pc = "streaming"]
  /\ lastEvent' = "other"
  /\ UNCHANGED view
  /\ UNCHANGED <<prompt, generatedCode, isGenerating, hasStarted, messages, selectedImage,
                 apiKey, reads, lastCall, nAccepted, netCalls, nIncrements, lastAttach>>

\* One iteration of the for-await loop.
StreamChunk(i, text) ==
  /\ MicrotasksDrained
  /\ i \in DOMAIN calls
  /\ calls[i].pc = "streaming"
  /\ nIncrements < MaxChunks
  /\ nIncrements' = nIncrements + 1
  /\ LET delivered == ChunkSinkCalls(text)
     IN /\ calls' = [calls EXCEPT ![i].stream = Append(@, text),
                                  ![i].sink = @ \o delivered,
                                  ![i].accumulatedCode = OnChunks(@, delivered)]
        /\ generatedCode' = OnChunks(generatedCode, delivered)
  /\ lastEvent' = "other"
  /\ UNCHANGED view
  /\ UNCHANGED <<prompt, isGenerating, hasStarted, messages, selectedImage,
                 apiKey, reads, lastCall, nAccepted, netCalls, lastAttach>>

\* The stream ends normally: the loop and generateWebsiteStream return.
StreamEnds(i) ==
  /\ MicrotasksDrained
  /\ i \in DOMAIN calls
  /\ calls[i].pc = "streaming"
  /\ calls' = [calls EXCEPT ![i].pc = "returned", ![i].outcome = "resolved"]
  /\ lastEvent' = "other"
  /\ UNCHANGED view
  /\ UNCHANGED <<prompt, generatedCode, isGenerating, hasStarted, messages, selectedImage,
                 apiKey, reads, lastCall, nAccepted, netCalls, nIncrements, lastAttach>>

\* The remote call or the stream throws: the catch clause runs.
RemoteFault(i, err) ==
  /\ MicrotasksDrained
  /\ i \in DOMAIN calls
  /\ calls[i].pc \in {"awaiting", "streaming"}
  /\ LET delivered == CatchSinkCalls(err)
     IN /\ calls' = [calls EXCEPT ![i].pc = "returned",
                                  ![i].outcome = CatchOutcome,
                                  ![i].fault = err,
                                  ![i].sink = @ \o delivered,
                                  ![i].accumulatedCode = OnChunks(@, delivered)]
        /\ generatedCode' = OnChunks(generatedCode, delivered)
  /\ netCalls' = NetCallsAfterFault(netCalls)
  /\ lastEvent' = "other"
  /\ UNCHANGED view
  /\ UNCHANGED <<prompt, isGenerating, hasStarted, messages, selectedImage,
                 apiKey, reads, lastCall, nAccepted, nIncrements, lastAttach>>

\* handleGenerate after its await: the assistant turn unless the promise
\* rejected, then the finally clause.
handleGenerateResume(i) ==
  /\ i \in DOMAIN calls
  /\ calls[i].pc = "returned"
  /\ messages' = IF calls[i].outcome = "resolved"
                 THEN AppendMessage(messages, AssistantConfirmation)
                 ELSE messages
  /\ isGenerating' = IsGeneratingAfter(calls[i].outcome)
  /\ lastCall' = Finished(calls[i])
  /\ calls' = RemoveAt(calls, i)
  /\ lastEvent' = "other"
  /\ UNCHANGED view
  /\ UNCHANGED <<prompt, generatedCode, hasStarted, selectedImage,
                 apiKey, reads, nAccepted, netCalls, nIncrements, lastAttach>>

\* onClick of the Code button; the preview toolbar is rendered once started.
ToggleShowCode ==
  /\ MicrotasksDrained
  /\ hasStarted
  /\ showCode' = ~showCode
  /\ lastEvent' = "other"
  /\ UNCHANGED <<prompt, generatedCode, isGenerating, hasStarted, messages, selectedImage,
                 apiKey, reads, calls, lastCall, nAccepted, netCalls, nIncrements,
                 viewportWidth, lastAttach>>

\* onClick of the monitor and smartphone buttons.
handleViewportChange(width) ==
  /\ MicrotasksDrained
  /\ hasStarted
  /\ viewportWidth' = width
  /\ lastEvent' = "other"
  /\ UNCHANGED <<prompt, generatedCode, isGenerating, hasStarted, messages, selectedImage,
                 apiKey, reads, calls, lastCall, nAccepted, netCalls, nIncrements,
                 showCode, lastAttach>>

Next ==
  \/ \E p \in Prompts : SetPrompt(p)
  \/ \E f \in Files : handleFileSelect(f)
  \/ \E i \in 1..MaxReads : ReaderOnload(i)
  \/ removeImage
  \/ \E via \in SubmitWays : handleGenerate(via)
  \/ \E i \in 1..MaxTurns : StreamOpens(i)
  \/ \E i \in 1..MaxTurns, text \in Increments : StreamChunk(i, text)
  \/ \E i \in 1..MaxTurns : StreamEnds(i)
  \/ \E i \in 1..MaxTurns, err \in Faults : RemoteFault(i, err)
  \/ \E i \in 1..MaxTurns : handleGenerateResume(i)

Spec == Init /\ [][Next]_vars

\* The handlers and callbacks in sessions with one visible prompt text and
\* one fragment text.
PlainPrompts == {<<>>, <<"a">>}
PlainIncrements == {<<>>, <<"x">>}

PlainNext ==
  \/ \E p \in PlainPrompts : SetPrompt(p)
  \/ \E f \in Files : handleFileSelect(f)
  \/ \E i \in 1..MaxReads : ReaderOnload(i)
  \/ removeImage
  \/ \E via \in SubmitWays : handleGenerate(via)
  \/ \E i \in 1..MaxTurns : StreamOpens(i)
  \/ \E i \in 1..MaxTurns, text \in PlainIncrements : StreamChunk(i, text)
  \/ \E i \in 1..MaxTurns : StreamEnds(i)
  \/ \E i \in 1..MaxTurns, err \in Faults : RemoteFault(i, err)
  \/ \E i \in 1..MaxTurns : handleGenerateResume(i)

\* The same sessions where the continuation of handleGenerate, a microtask
\* queued when the awaited promise settles, is always run by the event loop.
FairSpec ==
  /\ Init
  /\ [][PlainNext]_vars
  /\ WF_vars(\E i \in 1..MaxTurns : handleGenerateResume(i))

\* The same sessions together with the toggles of the preview pane.
ViewNext ==
  \/ PlainNext
  \/ ToggleShowCode
  \/ \E width \in {"100%", "375px"} : handleViewportChange(width)

ViewSpec == Init /\ [][ViewNext]_vars

\* The same handlers and callbacks with two accepted files, up to
\* MaxRaceReads reads pending at once, and the attachment actions recorded.
AttachInit == InitWith(NoAttachAction)

AttachNext ==
  \/ \E p \in Prompts : SetPrompt(p)
  \/ \E f \in RaceFiles :
       \* onChange fires when the file input's value changes
       /\ lastAttach.action = "select" => lastAttach.file # f
       /\ handleFileSelectWithin(f, MaxRaceReads)
  \/ \E i \in 1..MaxRaceReads : ReaderOnload(i)
  \/ removeImage
  \/ \E via \in SubmitWays : handleGenerate(via)
  \/ \E i \in 1..MaxTurns : StreamOpens(i)
  \/ \E i \in 1..MaxTurns, text \in Increments : StreamChunk(i, text)
  \/ \E i \in 1..MaxTurns : StreamEnds(i)
  \/ \E i \in 1..MaxTurns, err \in Faults : RemoteFault(i, err)
  \/ \E i \in 1..MaxTurns : handleGenerateResume(i)

AttachSpec == AttachInit /\ [][AttachNext]_vars

-----------------------------------------------------------------------------
(* Notions the properties share *)

\* The invocations of generateWebsiteStream that have started and not returned.
InFlight == {i \in DOMAIN calls : calls[i].pc \in {"awaiting", "streaming"}}

\* Empty or whitespace-only text.
Blank(p) == \A i \in 1..Len(p) : p[i] = " "

\* The fragments of a stream: its increments with non-empty text, in order.
NonEmpty(text) == text # <<>>
Fragments(stream) == SelectSeq(stream, NonEmpty)

\* What a no-op submit leaves alone.
SubmitFrame == <<prompt, generatedCode, isGenerating, messages, selectedImage,
                 calls, nAccepted, netCalls>>

-----------------------------------------------------------------------------
(* C1: in every reachable state at most one generateWebsiteStream call has  *)
(* started and not yet returned, whatever the interleaving of submits,      *)
(* fragments, stream ends, faults and file reads.                           *)
C1_AtMostOneCallInFlight == Cardinality(InFlight) <= 1 /\ Len(calls) <= 1

\* A submit with a non-blank prompt ran while the one call was streaming.
C1_Witness ==
  /\ Cardinality(InFlight) = 1
  /\ lastEvent = "submit"
  /\ calls[1].pc = "streaming"
  /\ calls[1].sink # <<>>
  /\ ~Blank(prompt)

(* C2: while a call is in flight the Document is the concatenation, in      *)
(* arrival order, of the fragments the sink received for that call: empty   *)
(* before the first one, and with nothing of an earlier turn.               *)
C2_DocumentIsPrefixOfCall ==
  \A i \in InFlight :
    /\ generatedCode = Concat(calls[i].sink)
    /\ calls[i].sink = Fragments(calls[i].stream)
    /\ (calls[i].sink = <<>> => generatedCode = <<>>)

\* The second turn is streaming on top of a non-empty earlier Document.
C2_Witness ==
  /\ InFlight = {1}
  /\ calls[1].id = 2
  /\ calls[1].args.currentCode # <<>>
  /\ Len(calls[1].sink) = 1
  /\ generatedCode # calls[1].args.currentCode

(* C3: a remote stream that ended normally with N fragments made exactly N  *)
(* sink calls, one per fragment and in arrival order, and when the turn is  *)
(* complete the Document is the concatenation of the N fragments.           *)
C3_SuccessfulStreamDelivered ==
  /\ \A i \in DOMAIN calls :
       (calls[i].pc = "returned" /\ calls[i].issued /\ calls[i].fault = "")
         => /\ calls[i].sink = Fragments(calls[i].stream)
            /\ generatedCode = Concat(Fragments(calls[i].stream))
  /\ (lastCall.id # 0 /\ lastCall.issued /\ lastCall.fault = "")
       => /\ lastCall.sink = Fragments(lastCall.stream)
          /\ generatedCode = Concat(Fragments(lastCall.stream))

\* A turn completed whose stream yielded two different fragments.
C3_Witness ==
  /\ lastCall.id # 0
  /\ lastCall.fault = ""
  /\ Len(lastCall.sink) = 2
  /\ lastCall.sink[1] # lastCall.sink[2]
  /\ ~isGenerating

(* C4: with the credential absent generateWebsiteStream issues no network   *)
(* call, calls the sink exactly once, with the missing-key diagnostic, and  *)
(* returns normally, whatever the prompt, document, attachment and history. *)
C4_MissingCredential ==
  apiKey = "" =>
    /\ netCalls = 0
    /\ \A i \in DOMAIN calls :
         /\ ~calls[i].issued
         /\ calls[i].pc = "returned"
         /\ calls[i].outcome = "resolved"
         /\ calls[i].sink = <<MissingKeyDiagnostic>>
    /\ lastCall.id # 0 =>
         /\ ~lastCall.issued
         /\ lastCall.outcome = "resolved"
         /\ lastCall.sink = <<MissingKeyDiagnostic>>
         /\ generatedCode = MissingKeyDiagnostic

\* Without a credential, a second turn with an attachment has just returned.
C4_Witness ==
  /\ apiKey = ""
  /\ Len(calls) = 1
  /\ calls[1].id = 2
  /\ calls[1].args.image # null
  /\ calls[1].args.history # <<>>
  /\ calls[1].args.currentCode # <<>>

(* C5: when the remote call or the stream faults after k >= 0 fragments,    *)
(* the client makes exactly one more sink call, the last of the turn, with  *)
(* the diagnostic of the fault, and resolves; the Document is then the k    *)
(* fragments followed by the diagnostic.                                    *)
C5_FaultBecomesDiagnostic ==
  /\ \A i \in DOMAIN calls :
       calls[i].fault # "" =>
         /\ calls[i].pc = "returned"
         /\ calls[i].outcome = "resolved"
         /\ calls[i].sink = Append(Fragments(calls[i].stream), ErrorDiagnostic(calls[i].fault))
         /\ generatedCode = Concat(Fragments(calls[i].stream)) \o ErrorDiagnostic(calls[i].fault)
  /\ lastCall.fault # "" =>
         /\ lastCall.outcome = "resolved"
         /\ lastCall.sink = Append(Fragments(lastCall.stream), ErrorDiagnostic(lastCall.fault))
         /\ generatedCode = Concat(Fragments(lastCall.stream)) \o ErrorDiagnostic(lastCall.fault)

\* A stream faulted after one fragment and its turn is complete.
C5_Witness ==
  /\ lastCall.fault # ""
  /\ Len(Fragments(lastCall.stream)) = 1
  /\ Len(lastCall.sink) = 2
  /\ ~isGenerating

(* C6: a submit while the busy flag is set changes nothing, whatever the    *)
(* prompt and the attachment: Transcript, Document, busy flag, prompt and   *)
(* Attachment stay as they are and no call is started.                      *)
C6_SubmitWhileBusyIsNoOp ==
  [][(isGenerating /\ lastEvent' = "submit") => UNCHANGED SubmitFrame]_vars

\* handleGenerate ran last, on a busy session with a prompt and an attachment
\* (an accepted submit would have cleared both).
C6_Witness ==
  /\ isGenerating
  /\ lastEvent = "submit"
  /\ ~Blank(prompt)
  /\ selectedImage # null
  /\ InFlight # {}

(* C7: a submit with an empty or whitespace-only prompt and no attachment   *)
(* changes nothing: Transcript, busy flag, Document and prompt stay as they *)
(* are and no call is started.                                              *)
C7_BlankSubmitIsNoOp ==
  [][(Blank(prompt) /\ selectedImage = null /\ lastEvent' = "submit")
       => UNCHANGED SubmitFrame]_vars

\* handleGenerate ran last on an idle session whose prompt is one blank.
C7_Witness ==
  /\ ~isGenerating
  /\ lastEvent = "submit"
  /\ prompt = <<" ">>
  /\ selectedImage = null

(* C8: once the call of an accepted submit has returned and handleGenerate  *)
(* has finished, the submit has added exactly two entries to the            *)
(* Transcript, the user turn and then the fixed assistant confirmation, and *)
(* the busy flag is false.                                                  *)
C8_TwoEntriesPerTurn ==
  calls = <<>> =>
    /\ ~isGenerating
    /\ Len(messages) = 2 * nAccepted
    /\ \A k \in 1..nAccepted :
         /\ messages[2 * k - 1].role = "user"
         /\ messages[2 * k] = [role |-> "assistant", text |-> <<"Site atualizado com sucesso.">>]

\* Two turns are complete and the second ended with a fault.
C8_Witness ==
  /\ calls = <<>>
  /\ nAccepted = 2
  /\ lastCall.fault # ""
  /\ Len(messages) = 4

(* C9: an accepted submit (idle, prompt non-blank or attachment present)    *)
(* clears the prompt and the attachment, sets busy, appends a user turn     *)
(* whose text is the captured prompt, prefixed with '[Imagem Anexada] ' iff *)
(* an attachment was present, and hands the client that prompt and that     *)
(* attachment.                                                              *)
C9_AcceptedSubmit ==
  [][ /\ (lastEvent' = "submit" /\ ~isGenerating /\ (~Blank(prompt) \/ selectedImage # null))
         => nAccepted' = nAccepted + 1
      /\ nAccepted' = nAccepted + 1
         => /\ ~isGenerating /\ (~Blank(prompt) \/ selectedImage # null)
            /\ prompt' = <<>>
            /\ selectedImage' = null
            /\ isGenerating'
            /\ Len(messages') = Len(messages) + 1
            /\ SubSeq(messages', 1, Len(messages)) = messages
            /\ messages'[Len(messages')].role = "user"
            /\ messages'[Len(messages')].text =
                 (IF selectedImage # null THEN <<"[Imagem Anexada] ">> ELSE <<>>) \o prompt
            /\ Len(calls') = Len(calls) + 1
            /\ calls'[Len(calls')].args.prompt = prompt
            /\ calls'[Len(calls')].args.image = selectedImage
    ]_vars

\* A submit of a blank prompt with an attachment was accepted just now.
C9_Witness ==
  /\ lastEvent = "submit"
  /\ isGenerating
  /\ Len(calls) = 1
  /\ calls[1].pc = "awaiting"
  /\ calls[1].args.prompt = <<" ">>
  /\ calls[1].args.image # null
  /\ messages[Len(messages)].text = <<"[Imagem Anexada] ", " ">>
  /\ prompt = <<>>
  /\ selectedImage = null

(* C10: the request parts are, in this order, the current-document part iff *)
(* the current document is non-empty, the conversation-history part iff the *)
(* history is non-empty, the 'Current Request' part always, and the inline  *)
(* image part iff an attachment is given; nothing else, the image last.     *)
PartsInOrder(call) ==
  LET a == call.args
      ps == call.parts
      nC == IF a.currentCode # <<>> THEN 1 ELSE 0
      nH == IF a.history # <<>> THEN 1 ELSE 0
      nI == IF a.image # null THEN 1 ELSE 0
  IN /\ Len(ps) = nC + nH + 1 + nI
     /\ nC = 1 => ps[1] = CurrentCodePart(a.currentCode)
     /\ nH = 1 => ps[nC + 1] = HistoryPart(a.history)
     /\ ps[nC + nH + 1] = PromptPart(a.prompt)
     /\ nI = 1 => ps[Len(ps)] = ImagePart(a.image)

C10_RequestPartsOrder == \A i \in DOMAIN calls : calls[i].issued => PartsInOrder(calls[i])

\* A request with all four parts was sent.
C10_Witness ==
  /\ Len(calls) = 1
  /\ calls[1].issued
  /\ Len(calls[1].parts) = 4
  /\ calls[1].args.image # null


(* C11: selecting a file whose media type is neither image/jpeg nor         *)
(* image/png changes nothing: the Attachment stays as it was, Transcript,   *)
(* Document and busy flag are not altered, and no file read is started.     *)
C11_UnsupportedFileRejected ==
  [][(lastEvent' \in FileTypes /\ lastEvent' \notin {"image/jpeg", "image/png"})
       => UNCHANGED <<selectedImage, reads, messages, generatedCode, isGenerating,
                      prompt, calls, nAccepted>>]_vars

\* A text file was picked last, on a busy session that holds an attachment.
C11_Witness ==
  /\ lastEvent = "text/plain"
  /\ selectedImage # null
  /\ isGenerating
  /\ reads = <<>>


\* The attachment reading a file yields.
ImageOf(file) == [mimeType |-> file.type, data |-> Base64(file.bytes)]

(* C12: after the user attached a valid image and removed it, the           *)
(* Attachment is unset and stays unset until another file is selected, for  *)
(* every interleaving of the removal with the completion of file reads (so  *)
(* that the next user turn carries no image marker).                        *)
C12_RemovedStaysUnset == lastAttach.action = "remove" => selectedImage = null

(* C20: the Attachment corresponds to the user's most recent attachment     *)
(* action: once every read has completed it is the file selected last, in   *)
(* every completion order, and a read that completes after an accepted      *)
(* submit does not fill the slot that submit cleared.                       *)
C20_AttachmentIsLatestAction ==
  /\ (lastAttach.action = "select" /\ reads = <<>>) => selectedImage = ImageOf(lastAttach.file)
  /\ lastAttach.action = "submit" => selectedImage = null


-----------------------------------------------------------------------------
(* C13: the Transcript is append-only: across every transition, the submit, *)
(* the fragments, the completion, the faults, the file selection, the image *)
(* removal and the view toggles, the previous Transcript is a prefix of the *)
(* new one; no entry is modified, removed or reordered.                     *)
C13_TranscriptAppendOnly ==
  [][ /\ Len(messages') >= Len(messages)
      /\ \A k \in 1..Len(messages) : messages'[k] = messages[k]
    ]_vars

\* Both view toggles were used and a second user turn was appended to a
\* transcript that held a first turn.
C13_Witness ==
  /\ showCode
  /\ viewportWidth = "375px"
  /\ Len(messages) = 3
  /\ messages[1].text # messages[3].text
  /\ isGenerating


-----------------------------------------------------------------------------
(* C14: every error path leaves the session usable.  Whenever the call of a *)
(* turn has returned, because the credential is missing, the stream ended   *)
(* or the call or the stream faulted, the busy flag eventually becomes      *)
(* false; and on an idle session whose last turn ended with a diagnostic,   *)
(* or whose last event was a rejected file selection, a submit with a       *)
(* non-blank prompt is accepted and starts a new generation call.           *)
CallReturned == \E i \in DOMAIN calls : calls[i].pc = "returned"

AfterErrorPath ==
  \/ lastCall.fault # ""
  \/ lastCall.id # 0 /\ ~lastCall.issued
  \/ lastEvent \in FileTypes \ {"image/jpeg", "image/png"}

C14_ErrorPathsLeaveSessionUsable ==
  /\ CallReturned ~> ~isGenerating
  /\ [][(lastEvent' = "submit" /\ ~isGenerating /\ ~Blank(prompt) /\ AfterErrorPath)
          => /\ nAccepted' = nAccepted + 1
             /\ isGenerating'
             /\ Len(calls') = Len(calls) + 1
             /\ calls'[Len(calls')].args.prompt = prompt
             /\ apiKey # "" => netCalls' = netCalls + 1
        ]_vars

\* The second turn's call is awaited, and the document it was handed is the
\* diagnostic with which the first turn's call ended.
C14_Witness ==
  /\ lastEvent = "submit"
  /\ nAccepted = 2
  /\ isGenerating
  /\ Len(calls) = 1
  /\ calls[1].pc = "awaiting"
  /\ calls[1].args.currentCode = Concat(CatchSinkCalls("quota"))
  /\ Len(messages) = 3


-----------------------------------------------------------------------------
(* C15: no retries.  The remote generate-content calls never outnumber the  *)
(* accepted submits and there is none when the credential is absent; the    *)
(* count grows only in the step of an accepted submit, and then by one, so  *)
(* a fault of the call or of its stream is followed by no further call      *)
(* until a new submit is accepted.                                          *)
C15_NoRetries ==
  /\ [](netCalls <= nAccepted /\ (apiKey = "" => netCalls = 0))
  /\ [][netCalls' # netCalls
          => /\ lastEvent' = "submit"
             /\ nAccepted' = nAccepted + 1
             /\ netCalls' = netCalls + 1
        ]_vars

\* The call of the second turn has just faulted, as the first turn's had,
\* and two remote calls were made in all.
C15_Witness ==
  /\ Len(calls) = 1
  /\ calls[1].pc = "returned"
  /\ calls[1].fault # ""
  /\ calls[1].id = 2
  /\ calls[1].args.currentCode = Concat(CatchSinkCalls("quota"))
  /\ netCalls = 2


-----------------------------------------------------------------------------
(* C16: a stream increment whose text is empty or absent causes no sink     *)
(* call and leaves the Document as it is; an increment with non-empty text  *)
(* causes exactly one sink call, with that text; so a stream without fault  *)
(* has made as many sink calls as it had non-empty increments.              *)
NonEmptyCount(stream) == Cardinality({k \in 1..Len(stream) : stream[k] # <<>>})

C16_EmptyIncrementsSkipped ==
  /\ [][nIncrements' = nIncrements + 1
          => \E i \in DOMAIN calls :
               LET text == calls'[i].stream[Len(calls'[i].stream)]
               IN /\ Len(calls'[i].stream) = Len(calls[i].stream) + 1
                  /\ text = <<>> => /\ calls'[i].sink = calls[i].sink
                                    /\ generatedCode' = generatedCode
                  /\ text # <<>> => calls'[i].sink = Append(calls[i].sink, text)
        ]_vars
  /\ [](/\ \A i \in DOMAIN calls :
             (calls[i].issued /\ calls[i].fault = "")
               => Len(calls[i].sink) = NonEmptyCount(calls[i].stream)
        /\ (lastCall.issued /\ lastCall.fault = "")
               => Len(lastCall.sink) = NonEmptyCount(lastCall.stream))

\* A turn completed whose stream was an empty increment and then a fragment.
C16_Witness ==
  /\ lastCall.id # 0
  /\ lastCall.fault = ""
  /\ Len(lastCall.stream) = 2
  /\ lastCall.stream[1] = <<>>
  /\ lastCall.stream[2] # <<>>
  /\ generatedCode = lastCall.stream[2]


-----------------------------------------------------------------------------
(* C17: the current-document context an accepted submit hands to the client *)
(* is the Document as it stood when the previous turn finished, with the    *)
(* diagnostic of a failed turn if there is one, and not the Document the    *)
(* submit has just reset; on the first turn it is empty and the request has *)
(* no current-document part.                                                *)
C17_CurrentDocumentContext ==
  [][nAccepted' = nAccepted + 1
       => LET call == calls'[Len(calls')]
          IN /\ call.args.currentCode = generatedCode
             /\ lastCall.id # 0 => call.args.currentCode = Concat(lastCall.sink)
             /\ nAccepted = 0 => call.args.currentCode = <<>>
             /\ (call.issued /\ call.args.currentCode # <<>>)
                  => call.parts[1] = CurrentCodePart(generatedCode)
             /\ (call.issued /\ nAccepted = 0)
                  => call.parts[1] = PromptPart(prompt)
    ]_vars

\* The second turn's call has been handed the fragment and the diagnostic of
\* the first turn while the Document on display is the reset one.
C17_Witness ==
  /\ lastEvent = "submit"
  /\ Len(calls) = 1
  /\ calls[1].id = 2
  /\ calls[1].issued
  /\ calls[1].args.currentCode = <<"x">> \o Concat(CatchSinkCalls("quota"))
  /\ calls[1].parts[1] = CurrentCodePart(calls[1].args.currentCode)
  /\ generatedCode = <<>>


-----------------------------------------------------------------------------
(* C18: the history an accepted submit hands to the client is the           *)
(* Transcript as it was just before the submit's user turn was appended: it *)
(* holds every entry of the earlier turns and not the new user turn, so the *)
(* prompt is in the request as the 'Current Request' part only; on the      *)
(* first turn the history is empty and the request has no history part.     *)
C18_HistoryBeforeUserTurn ==
  [][nAccepted' = nAccepted + 1
       => LET call == calls'[Len(calls')]
              nC == IF call.args.currentCode # <<>> THEN 1 ELSE 0
          IN /\ call.args.history = messages
             /\ Len(call.args.history) = 2 * nAccepted
             /\ messages' = Append(call.args.history, messages'[Len(messages')])
             /\ nAccepted = 0 => call.args.history = <<>>
             /\ call.issued
                  => /\ messages # <<>> => call.parts[nC + 1] = HistoryPart(messages)
                     /\ messages = <<>> => call.parts[nC + 1] = PromptPart(prompt)
                     /\ Cardinality({k \in DOMAIN call.parts :
                                       call.parts[k] = PromptPart(prompt)}) = 1
    ]_vars

\* The second turn's request carries the two entries of the first turn as
\* its history while the Transcript already holds the second user turn.
C18_Witness ==
  /\ lastEvent = "submit"
  /\ Len(calls) = 1
  /\ calls[1].id = 2
  /\ calls[1].issued
  /\ Len(calls[1].args.history) = 2
  /\ Len(messages) = 3
  /\ messages[3].text = calls[1].args.prompt
  /\ messages[1].text = messages[3].text
  /\ HistoryPart(calls[1].args.history) \in {calls[1].parts[k] : k \in DOMAIN calls[1].parts}


-----------------------------------------------------------------------------
(* C19: in every reachable state the Transcript alternates user, assistant, *)
(* user, ..., starting with a user turn; while the busy flag is false its   *)
(* length is even and twice the number of accepted submits; while a call is *)
(* in flight its length is odd and its last entry is the user turn of that  *)
(* call.                                                                    *)
C19_TranscriptAlternates ==
  /\ \A k \in DOMAIN messages :
       messages[k].role = IF k % 2 = 1 THEN "user" ELSE "assistant"
  /\ ~isGenerating => Len(messages) = 2 * nAccepted
  /\ \A i \in InFlight :
       /\ Len(messages) = 2 * calls[i].id - 1
       /\ messages[Len(messages)].role = "user"
       /\ messages[Len(messages)].text =
            (IF calls[i].args.image # null THEN ImageMarker ELSE <<>>) \o calls[i].args.prompt
       /\ SubSeq(messages, 1, Len(messages) - 1) = calls[i].args.history

\* The second turn's call is streaming: three entries, the last one the
\* user turn with the image marker.
C19_Witness ==
  /\ InFlight = {1}
  /\ calls[1].pc = "streaming"
  /\ calls[1].id = 2
  /\ Len(messages) = 3
  /\ messages[2].role = "assistant"
  /\ calls[1].args.image # null
  /\ messages[3].text = ImageMarker \o calls[1].args.prompt

====
